---- MODULE Spec2Model ----
(***************************************************************************)
(* Tegra graphics host automatic clock management (nvhost_acm.c).          *)
(*                                                                         *)
(* Two module instances, a child and its parent, are driven by caller      *)
(* threads issuing nvhost_module_busy / nvhost_module_idle_mult and by one *)
(* delayed-work item per module (powerdown_handler).  Every function is    *)
(* modelled statement by statement: each thread has a call stack of        *)
(* frames, and one action executes one statement of the top frame.         *)
(* The client rate registry (add_client / set_rate / remove_client) is     *)
(* serialised by client_list_lock, so each of its operations is one        *)
(* action; it is checked under its own specification SpecRate.             *)
(***************************************************************************)
EXTENDS Integers, Sequences, FiniteSets, TLC

\* ------------------------------------------------------------------ bounds
\* Most references callers keep outstanding on one module.
MaxRef == 2
\* Most consecutive refusals of the prepare_poweroff hook in one idle episode.
MaxRefuse == 2
\* How far below zero misuse (uncovered idle) may push the caller balance.
MaxUnder == 1

\* ------------------------------------------------------- threads, modules
Callers == {"t1", "t2"}
Mods == {"child", "parent"}
NoMod == "none"
Free == "free"

\* mod->parent, fixed by nvhost_module_init
Parent(m) == IF m = "child" THEN "parent" ELSE NoMod

\* The worker context that runs mod->powerdown.
Worker(m) == IF m = "child" THEN "wc" ELSE "wp"
Workers == {Worker(m) : m \in Mods}
Procs == Callers \cup Workers

\* The descriptors of a gateable child under a host that cannot powergate.
HostDesc == [m \in Mods |-> m = "child"]
\* desc->prepare_poweroff is set: only the child's descriptor has the hook
has_prepare_poweroff(m) == m = "child"

VARIABLES
    stack,      \* per thread: its call stack, a sequence of frames
    lock,       \* mod->lock: the holder, or Free
    refcount,   \* mod->refcount
    powered,    \* mod->powered
    pending,    \* mod->powerdown: number of queued instances of the work
    gated,      \* power partition of the module is gated
    clkon,      \* clk_enable minus clk_disable calls on the module's clocks
    fin,        \* finalize_poweron hook calls since the last power-off
    pref,       \* busy minus idle calls the module has issued on its parent
    ext,        \* busy minus idle calls the callers have completed/issued
    everbusy,   \* refcount has been nonzero since init
    refused,    \* prepare_poweroff refusals in the current idle episode
    rearmed,    \* retry re-arms in the current idle episode
    clean,      \* the current idle episode saw no busy() and no stale retry
    fatal,      \* a BUG_ON fired
    client_list,\* mod->client_list: sequence of [priv, rate]
    clk_rate,   \* rate last applied to each clock by clk_set_rate
    ret,        \* return value of the last registry call
    lastop,     \* the last registry call and its arguments
    desc_gate,  \* desc->can_powergate of each module's descriptor
    pg_touched, \* powergate_ids slots gated or un-gated by a call after init
    iovma,      \* the area handed to gart_map and its backing pages
    gart_pc,    \* gart_map's position
    gart_i,     \* gart_map's i
    gart_page,  \* gart_map's gart_page
    gart_pfn,   \* gart_map's pfn
    pte,        \* the GART entries, by address
    pte0,       \* the GART entries when gart_map was called
    resident,   \* lock_makeresident calls that pinned each page of the area
    released,   \* release calls on each page of the area
    gart_ret    \* gart_map's return value

\* desc->can_powergate
can_powergate(m) == desc_gate[m]

\* desc->powergate_ids[]: slot 0 names the module's partition, slot 1 is -1
Slots == {0, 1}
NoPartition == "none"
powergate_ids(m) == [s \in Slots |-> IF s = 0 THEN m ELSE NoPartition]

\* Mutant of Partitions: the can_powergate test is dropped.
PartitionsAlways(m) == {s \in Slots : powergate_ids(m)[s] # NoPartition}

\* The slots powergate(mod) and unpowergate(mod) act on.
Partitions(m) ==
    IF can_powergate(m)
    THEN {s \in Slots : powergate_ids(m)[s] # NoPartition}
    ELSE {}

pvars == <<stack, lock, refcount, powered, pending, gated, clkon, fin, pref,
           ext, everbusy, refused, rearmed, clean, fatal>>
rvars == <<client_list, clk_rate, ret, lastop>>
dvars == <<desc_gate, pg_touched>>
gvars == <<iovma, gart_pc, gart_i, gart_page, gart_pfn, pte, pte0, resident,
           released, gart_ret>>
vars == <<stack, lock, refcount, powered, pending, gated, clkon, fin, pref,
          ext, everbusy, refused, rearmed, clean, fatal,
          client_list, clk_rate, ret, lastop, desc_gate, pg_touched,
          iovma, gart_pc, gart_i, gart_page, gart_pfn, pte, pte0, resident,
          released, gart_ret>>

\* ------------------------------------------------------------ call stacks
Frame(f, m, pc, n) == [fn |-> f, m |-> m, pc |-> pc, n |-> n]
Depth(p) == Len(stack[p])
Top(p) == stack[p][Len(stack[p])]
At(p, f, pc) == Depth(p) > 0 /\ Top(p).fn = f /\ Top(p).pc = pc

Goto(p, pc) == [stack EXCEPT ![p][Len(stack[p])].pc = pc]
Return(p) == [stack EXCEPT ![p] = SubSeq(@, 1, Len(@) - 1)]
\* Call g on module m with argument n; the caller resumes at retpc.
Call(p, retpc, g, m, n) ==
    [stack EXCEPT ![p] = Append([@ EXCEPT ![Len(@)].pc = retpc],
                                Frame(g, m, "lock", n))]

\* ------------------------------------------------ delayed work (workqueue)
\* schedule_delayed_work: queues the work unless it is already pending.
schedule_delayed_work(p) == IF p >= 1 THEN p ELSE 1
\* cancel_delayed_work: removes a pending, not yet running, work.
cancel_delayed_work(p) == 0

\* ------------------------------------------------------------------- Init
\* State after nvhost_module_init of both modules: refcount 0, powered
\* false, no work queued; a module that cannot powergate is un-gated once
\* here, the partition of a gateable module is as the boot left it.
InitModules ==
    /\ stack = [p \in Procs |-> <<>>]
    /\ lock = [m \in Mods |-> Free]
    /\ refcount = [m \in Mods |-> 0]
    /\ powered = [m \in Mods |-> FALSE]
    /\ pending = [m \in Mods |-> 0]
    /\ gated \in {g \in [Mods -> BOOLEAN] :
                    \A m \in Mods : ~can_powergate(m) => ~g[m]}
    /\ clkon = [m \in Mods |-> 0]
    /\ fin = [m \in Mods |-> 0]
    /\ pref = [m \in Mods |-> 0]
    /\ ext = [m \in Mods |-> 0]
    /\ everbusy = [m \in Mods |-> FALSE]
    /\ refused = [m \in Mods |-> 0]
    /\ rearmed = [m \in Mods |-> 0]
    /\ clean = [m \in Mods |-> FALSE]
    /\ fatal = FALSE
    /\ pg_touched = [m \in Mods |-> {}]

InitPower ==
    /\ desc_gate = HostDesc
    /\ InitModules

\* mutex_lock(&mod->lock) at the head of function f
MutexLock(p, f, next) ==
    /\ ~fatal
    /\ At(p, f, "lock")
    /\ lock[Top(p).m] = Free
    /\ lock' = [lock EXCEPT ![Top(p).m] = p]
    /\ stack' = Goto(p, next)

\* ------------------------------------------------------ nvhost_module_busy
BusyLock(p) ==
    /\ MutexLock(p, "busy", "cancel")
    /\ UNCHANGED <<refcount, powered, pending, gated, clkon, fin, pref, ext,
                   everbusy, refused, rearmed, clean, fatal, rvars, dvars, gvars>>

\* cancel_delayed_work(&mod->powerdown); desc->busy hook
BusyCancel(p) ==
    /\ ~fatal
    /\ At(p, "busy", "cancel")
    /\ LET m == Top(p).m IN
        /\ pending' = [pending EXCEPT ![m] = cancel_delayed_work(@)]
        /\ clean' = [clean EXCEPT ![m] = FALSE]
        /\ refused' = [refused EXCEPT ![m] = 0]
        /\ rearmed' = [rearmed EXCEPT ![m] = 0]
    /\ stack' = Goto(p, "inc")
    /\ UNCHANGED <<lock, refcount, powered, gated, clkon, fin, pref, ext,
                   everbusy, fatal, rvars, dvars, gvars>>

\* Mutants of the test below: the negation of powered lost, and the test
\* of powered dropped.
NeedPowerUpInverted(rc, pw) == rc = 1 /\ pw
NeedPowerUpAnyFirst(rc, pw) == rc = 1

\* The test that starts the power-up sequence (line 111).
NeedPowerUp(rc, pw) == rc = 1 /\ ~pw

\* atomic_inc_return(&mod->refcount) and the test on its result
BusyInc(p) ==
    /\ ~fatal
    /\ At(p, "busy", "inc")
    /\ LET m == Top(p).m
           rc == refcount[m] + 1 IN
        /\ refcount' = [refcount EXCEPT ![m] = rc]
        /\ everbusy' = [everbusy EXCEPT ![m] = @ \/ rc # 0]
        /\ stack' = Goto(p, IF NeedPowerUp(rc, powered[m])
                            THEN "parent" ELSE "unlock")
    /\ UNCHANGED <<lock, powered, pending, gated, clkon, fin, pref, ext,
                   refused, rearmed, clean, fatal, rvars, dvars, gvars>>

\* Mutant of BusyParent: the parent is not marked busy.
BusyParentSkipped(p) ==
    /\ ~fatal
    /\ At(p, "busy", "parent")
    /\ stack' = Goto(p, "ungate")
    /\ UNCHANGED <<lock, refcount, powered, pending, gated, clkon, fin, pref,
                   ext, everbusy, refused, rearmed, clean, fatal, rvars, dvars, gvars>>

\* if (mod->parent) nvhost_module_busy(mod->parent), with mod->lock held
BusyParent(p) ==
    /\ ~fatal
    /\ At(p, "busy", "parent")
    /\ LET m == Top(p).m IN
        IF Parent(m) # NoMod
        THEN /\ stack' = Call(p, "ungate", "busy", Parent(m), 0)
             /\ pref' = [pref EXCEPT ![m] = @ + 1]
        ELSE /\ stack' = Goto(p, "ungate")
             /\ pref' = pref
    /\ UNCHANGED <<lock, refcount, powered, pending, gated, clkon, fin, ext,
                   everbusy, refused, rearmed, clean, fatal, rvars, dvars, gvars>>

\* unpowergate(mod)
BusyUngate(p) ==
    /\ ~fatal
    /\ At(p, "busy", "ungate")
    /\ LET m == Top(p).m IN
        /\ gated' = [gated EXCEPT ![m] = IF 0 \in Partitions(m) THEN FALSE ELSE @]
        /\ pg_touched' = [pg_touched EXCEPT ![m] = @ \cup Partitions(m)]
    /\ stack' = Goto(p, "clken")
    /\ UNCHANGED <<lock, refcount, powered, pending, clkon, fin, pref, ext,
                   everbusy, refused, rearmed, clean, fatal, rvars, desc_gate, gvars>>

\* Mutant of BusyClockEnable: the power-up goes on without enabling the
\* clocks.
BusyClockEnableSkipped(p) ==
    /\ ~fatal
    /\ At(p, "busy", "clken")
    /\ stack' = Goto(p, "finalize")
    /\ UNCHANGED <<lock, refcount, powered, pending, gated, clkon, fin, pref,
                   ext, everbusy, refused, rearmed, clean, fatal, rvars, dvars, gvars>>

\* clock_enable(mod)
BusyClockEnable(p) ==
    /\ ~fatal
    /\ At(p, "busy", "clken")
    /\ clkon' = [clkon EXCEPT ![Top(p).m] = @ + 1]
    /\ stack' = Goto(p, "finalize")
    /\ UNCHANGED <<lock, refcount, powered, pending, gated, fin, pref, ext,
                   everbusy, refused, rearmed, clean, fatal, rvars, dvars, gvars>>

\* desc->finalize_poweron(mod)
BusyFinalize(p) ==
    /\ ~fatal
    /\ At(p, "busy", "finalize")
    /\ fin' = [fin EXCEPT ![Top(p).m] = @ + 1]
    /\ stack' = Goto(p, "setpow")
    /\ UNCHANGED <<lock, refcount, powered, pending, gated, clkon, pref, ext,
                   everbusy, refused, rearmed, clean, fatal, rvars, dvars, gvars>>

\* mod->powered = true
BusySetPowered(p) ==
    /\ ~fatal
    /\ At(p, "busy", "setpow")
    /\ powered' = [powered EXCEPT ![Top(p).m] = TRUE]
    /\ stack' = Goto(p, "unlock")
    /\ UNCHANGED <<lock, refcount, pending, gated, clkon, fin, pref, ext,
                   everbusy, refused, rearmed, clean, fatal, rvars, dvars, gvars>>

\* Mutant of BusyUnlock: busy returns with mod->lock still held.
BusyUnlockForgotten(p) ==
    /\ ~fatal
    /\ At(p, "busy", "unlock")
    /\ ext' = IF p \in Callers /\ Depth(p) = 1
              THEN [ext EXCEPT ![Top(p).m] = @ + 1] ELSE ext
    /\ stack' = Return(p)
    /\ UNCHANGED <<lock, refcount, powered, pending, gated, clkon, fin, pref,
                   everbusy, refused, rearmed, clean, fatal, rvars, dvars, gvars>>

\* mutex_unlock(&mod->lock) and return; a caller's own busy() now counts
\* as a reference the caller holds.
BusyUnlock(p) ==
    /\ ~fatal
    /\ At(p, "busy", "unlock")
    /\ lock' = [lock EXCEPT ![Top(p).m] = Free]
    /\ ext' = IF p \in Callers /\ Depth(p) = 1
              THEN [ext EXCEPT ![Top(p).m] = @ + 1] ELSE ext
    /\ stack' = Return(p)
    /\ UNCHANGED <<refcount, powered, pending, gated, clkon, fin, pref,
                   everbusy, refused, rearmed, clean, fatal, rvars, dvars, gvars>>

\* ------------------------------------------------- nvhost_module_idle_mult
IdleLock(p) ==
    /\ MutexLock(p, "idle", "sub")
    /\ UNCHANGED <<refcount, powered, pending, gated, clkon, fin, pref, ext,
                   everbusy, refused, rearmed, clean, fatal, rvars, dvars, gvars>>

\* atomic_sub_return(refs, &mod->refcount) == 0, then BUG_ON(!mod->powered)
IdleSub(p) ==
    /\ ~fatal
    /\ At(p, "idle", "sub")
    /\ LET m == Top(p).m
           rc == refcount[m] - Top(p).n IN
        /\ refcount' = [refcount EXCEPT ![m] = rc]
        /\ everbusy' = [everbusy EXCEPT ![m] = @ \/ rc # 0]
        /\ IF rc = 0 /\ ~powered[m]
           THEN fatal' = TRUE /\ stack' = stack
           ELSE /\ fatal' = fatal
                /\ stack' = [Goto(p, IF rc = 0 THEN "sched" ELSE "unlock")
                               EXCEPT ![p][Len(stack[p])].n = 0]
    /\ UNCHANGED <<lock, powered, pending, gated, clkon, fin, pref, ext,
                   refused, rearmed, clean, rvars, dvars, gvars>>

\* schedule_delayed_work(&mod->powerdown, delay); kick = true.  A new idle
\* episode starts here; it is clean unless a retry of an earlier episode is
\* still on its way to re-arm the work.
IdleSched(p) ==
    /\ ~fatal
    /\ At(p, "idle", "sched")
    /\ LET m == Top(p).m IN
        /\ pending' = [pending EXCEPT ![m] = schedule_delayed_work(@)]
        /\ refused' = [refused EXCEPT ![m] = 0]
        /\ rearmed' = [rearmed EXCEPT ![m] = 0]
        /\ clean' = [clean EXCEPT ![m] = ~At(Worker(m), "powerdown", "resched")]
    /\ stack' = Goto(p, "unlock_kick")
    /\ UNCHANGED <<lock, refcount, powered, gated, clkon, fin, pref, ext,
                   everbusy, fatal, rvars, dvars, gvars>>

\* mutex_unlock(&mod->lock); return unless kick is set
IdleUnlock(p) ==
    /\ ~fatal
    /\ \/ /\ At(p, "idle", "unlock")
          /\ stack' = Return(p)
       \/ /\ At(p, "idle", "unlock_kick")
          /\ stack' = Goto(p, "wake")
    /\ lock' = [lock EXCEPT ![Top(p).m] = Free]
    /\ UNCHANGED <<refcount, powered, pending, gated, clkon, fin, pref, ext,
                   everbusy, refused, rearmed, clean, fatal, rvars, dvars, gvars>>

\* wake_up(&mod->idle); desc->idle hook; return
IdleWake(p) ==
    /\ ~fatal
    /\ At(p, "idle", "wake")
    /\ stack' = Return(p)
    /\ UNCHANGED <<lock, refcount, powered, pending, gated, clkon, fin, pref,
                   ext, everbusy, refused, rearmed, clean, fatal, rvars, dvars, gvars>>

\* ------------------------------------------------------- powerdown_handler
\* The delay expires and the workqueue starts the handler: the work is no
\* longer pending while it runs.
Fire(m) ==
    /\ ~fatal
    /\ pending[m] > 0
    /\ stack[Worker(m)] = <<>>
    /\ pending' = [pending EXCEPT ![m] = @ - 1]
    /\ stack' = [stack EXCEPT ![Worker(m)] = <<Frame("powerdown", m, "lock", 0)>>]
    /\ UNCHANGED <<lock, refcount, powered, gated, clkon, fin, pref, ext,
                   everbusy, refused, rearmed, clean, fatal, rvars, dvars, gvars>>

PdLock(p) ==
    /\ MutexLock(p, "powerdown", "check")
    /\ UNCHANGED <<refcount, powered, pending, gated, clkon, fin, pref, ext,
                   everbusy, refused, rearmed, clean, fatal, rvars, dvars, gvars>>

\* Mutant of the test below: the refcount is not looked at.
MayPowerDownAnyRef(rc, pw) == pw

\* The test that lets the handler power the module off (line 149).
MayPowerDown(rc, pw) == rc = 0 /\ pw

PdCheck(p) ==
    /\ ~fatal
    /\ At(p, "powerdown", "check")
    /\ stack' = Goto(p, IF MayPowerDown(refcount[Top(p).m], powered[Top(p).m])
                        THEN "prepare" ELSE "unlock")
    /\ UNCHANGED <<lock, refcount, powered, pending, gated, clkon, fin, pref,
                   ext, everbusy, refused, rearmed, clean, fatal, rvars, dvars, gvars>>

\* Mutant of RefusedTarget: the retry path's return is missing and the
\* handler falls through to the power-off.
RefusedFallsThrough == "clkdis"

\* Where the handler goes when prepare_poweroff refuses.
RefusedTarget == "retry_unlock"

\* desc->prepare_poweroff(mod): the hook refuses (nonzero) or accepts; a
\* missing hook accepts.
PdPrepare(p) ==
    /\ ~fatal
    /\ At(p, "powerdown", "prepare")
    /\ \/ /\ has_prepare_poweroff(Top(p).m)
          /\ refused[Top(p).m] < MaxRefuse
          /\ refused' = [refused EXCEPT ![Top(p).m] = @ + 1]
          /\ stack' = Goto(p, RefusedTarget)
       \/ /\ refused' = refused
          /\ stack' = Goto(p, "clkdis")
    /\ UNCHANGED <<lock, refcount, powered, pending, gated, clkon, fin, pref,
                   ext, everbusy, rearmed, clean, fatal, rvars, dvars, gvars>>

\* retry path: mutex_unlock(&mod->lock)
PdRetryUnlock(p) ==
    /\ ~fatal
    /\ At(p, "powerdown", "retry_unlock")
    /\ lock' = [lock EXCEPT ![Top(p).m] = Free]
    /\ stack' = Goto(p, "resched")
    /\ UNCHANGED <<refcount, powered, pending, gated, clkon, fin, pref, ext,
                   everbusy, refused, rearmed, clean, fatal, rvars, dvars, gvars>>

\* Mutant of RetryArm: the retry path returns without re-arming the work.
RetryArmForgotten(q) == q

\* Mutant of RetryArm: the work is queued once more although it is pending
\* (as when the work item is re-initialised before it is scheduled).
RetryArmStacked(q) == q + 1

\* The retry path's re-arm of mod->powerdown.
RetryArm(q) == schedule_delayed_work(q)

\* retry path: schedule_delayed_work(&mod->powerdown, delay); return
PdResched(p) ==
    /\ ~fatal
    /\ At(p, "powerdown", "resched")
    /\ pending' = [pending EXCEPT ![Top(p).m] = RetryArm(@)]
    /\ rearmed' = [rearmed EXCEPT ![Top(p).m] = @ + 1]
    /\ stack' = Return(p)
    /\ UNCHANGED <<lock, refcount, powered, gated, clkon, fin, pref, ext,
                   everbusy, refused, clean, fatal, rvars, dvars, gvars>>

\* Mutant of PdClockDisable: the handler goes on to gate the partition with
\* the clocks still enabled.
PdClockDisableSkipped(p) ==
    /\ ~fatal
    /\ At(p, "powerdown", "clkdis")
    /\ stack' = Goto(p, "gate")
    /\ UNCHANGED <<lock, refcount, powered, pending, gated, clkon, fin, pref,
                   ext, everbusy, refused, rearmed, clean, fatal, rvars, dvars, gvars>>

\* clock_disable(mod)
PdClockDisable(p) ==
    /\ ~fatal
    /\ At(p, "powerdown", "clkdis")
    /\ clkon' = [clkon EXCEPT ![Top(p).m] = @ - 1]
    /\ stack' = Goto(p, "gate")
    /\ UNCHANGED <<lock, refcount, powered, pending, gated, fin, pref, ext,
                   everbusy, refused, rearmed, clean, fatal, rvars, dvars, gvars>>

\* powergate(mod)
PdGate(p) ==
    /\ ~fatal
    /\ At(p, "powerdown", "gate")
    /\ LET m == Top(p).m IN
        /\ gated' = [gated EXCEPT ![m] = IF 0 \in Partitions(m) THEN TRUE ELSE @]
        /\ pg_touched' = [pg_touched EXCEPT ![m] = @ \cup Partitions(m)]
    /\ stack' = Goto(p, "clrpow")
    /\ UNCHANGED <<lock, refcount, powered, pending, clkon, fin, pref, ext,
                   everbusy, refused, rearmed, clean, fatal, rvars, desc_gate, gvars>>

\* Mutant of PdClearPowered: the flag is left set when the module has been
\* powered off.
PdClearPoweredSkipped(p) ==
    /\ ~fatal
    /\ At(p, "powerdown", "clrpow")
    /\ fin' = [fin EXCEPT ![Top(p).m] = 0]
    /\ stack' = Goto(p, "pidle")
    /\ UNCHANGED <<lock, refcount, powered, pending, gated, clkon, pref, ext,
                   everbusy, refused, rearmed, clean, fatal, rvars, dvars, gvars>>

\* mod->powered = false
PdClearPowered(p) ==
    /\ ~fatal
    /\ At(p, "powerdown", "clrpow")
    /\ powered' = [powered EXCEPT ![Top(p).m] = FALSE]
    /\ fin' = [fin EXCEPT ![Top(p).m] = 0]
    /\ stack' = Goto(p, "pidle")
    /\ UNCHANGED <<lock, refcount, pending, gated, clkon, pref, ext,
                   everbusy, refused, rearmed, clean, fatal, rvars, dvars, gvars>>

\* Mutant of PdParentIdle: mod->lock is released before the parent is idled.
PdParentIdleUnlocked(p) ==
    /\ ~fatal
    /\ At(p, "powerdown", "pidle")
    /\ LET m == Top(p).m IN
        /\ lock' = [lock EXCEPT ![m] = Free]
        /\ IF Parent(m) # NoMod
           THEN /\ stack' = Call(p, "unlock", "idle", Parent(m), 1)
                /\ pref' = [pref EXCEPT ![m] = @ - 1]
           ELSE /\ stack' = Goto(p, "unlock")
                /\ pref' = pref
    /\ UNCHANGED <<refcount, powered, pending, gated, clkon, fin, ext,
                   everbusy, refused, rearmed, clean, fatal, rvars, dvars, gvars>>

\* if (mod->parent) nvhost_module_idle(mod->parent), with mod->lock held
PdParentIdle(p) ==
    /\ ~fatal
    /\ At(p, "powerdown", "pidle")
    /\ LET m == Top(p).m IN
        IF Parent(m) # NoMod
        THEN /\ stack' = Call(p, "unlock", "idle", Parent(m), 1)
             /\ pref' = [pref EXCEPT ![m] = @ - 1]
        ELSE /\ stack' = Goto(p, "unlock")
             /\ pref' = pref
    /\ UNCHANGED <<lock, refcount, powered, pending, gated, clkon, fin, ext,
                   everbusy, refused, rearmed, clean, fatal, rvars, dvars, gvars>>

\* mutex_unlock(&mod->lock); return
PdUnlock(p) ==
    /\ ~fatal
    /\ At(p, "powerdown", "unlock")
    /\ lock' = [lock EXCEPT ![Top(p).m] = Free]
    /\ stack' = Return(p)
    /\ UNCHANGED <<refcount, powered, pending, gated, clkon, fin, pref, ext,
                   everbusy, refused, rearmed, clean, fatal, rvars, dvars, gvars>>

\* ------------------------------------------------------------ the callers
\* References on m the callers hold or are about to hold.
Outstanding(m) ==
    ext[m] + Cardinality({t \in Callers :
                Depth(t) > 0 /\ stack[t][1].fn = "busy" /\ stack[t][1].m = m})

\* A caller enters nvhost_module_busy(m).
CallBusy(t, m) ==
    /\ ~fatal
    /\ stack[t] = <<>>
    /\ Outstanding(m) < MaxRef
    /\ stack' = [stack EXCEPT ![t] = <<Frame("busy", m, "lock", 0)>>]
    /\ UNCHANGED <<lock, refcount, powered, pending, gated, clkon, fin, pref,
                   ext, everbusy, refused, rearmed, clean, fatal, rvars, dvars, gvars>>

\* A caller enters nvhost_module_idle_mult(m, n), giving up n references
\* that earlier busy() calls cover.
CallIdle(t, m, n) ==
    /\ ~fatal
    /\ stack[t] = <<>>
    /\ n >= 1 /\ n <= ext[m]
    /\ ext' = [ext EXCEPT ![m] = @ - n]
    /\ stack' = [stack EXCEPT ![t] = <<Frame("idle", m, "lock", n)>>]
    /\ UNCHANGED <<lock, refcount, powered, pending, gated, clkon, fin, pref,
                   everbusy, refused, rearmed, clean, fatal, rvars, dvars, gvars>>

\* Misuse: nvhost_module_idle_mult(m, n) with n = 0 or with more references
\* than the callers hold.
CallIdleUncovered(t, m, n) ==
    /\ ~fatal
    /\ stack[t] = <<>>
    /\ n = 0 \/ n > ext[m]
    /\ ext[m] - n >= 0 - MaxUnder
    /\ ext' = [ext EXCEPT ![m] = @ - n]
    /\ stack' = [stack EXCEPT ![t] = <<Frame("idle", m, "lock", n)>>]
    /\ UNCHANGED <<lock, refcount, powered, pending, gated, clkon, fin, pref,
                   everbusy, refused, rearmed, clean, fatal, rvars, dvars, gvars>>

Step(p) ==
    \/ BusyLock(p) \/ BusyCancel(p) \/ BusyInc(p) \/ BusyParent(p)
    \/ BusyUngate(p) \/ BusyClockEnable(p) \/ BusyFinalize(p)
    \/ BusySetPowered(p) \/ BusyUnlock(p)
    \/ IdleLock(p) \/ IdleSub(p) \/ IdleSched(p) \/ IdleUnlock(p)
    \/ IdleWake(p)
    \/ PdLock(p) \/ PdCheck(p) \/ PdPrepare(p) \/ PdRetryUnlock(p)
    \/ PdResched(p) \/ PdClockDisable(p) \/ PdGate(p) \/ PdClearPowered(p)
    \/ PdParentIdle(p) \/ PdUnlock(p)

Next ==
    \/ \E p \in Procs : Step(p)
    \/ \E m \in Mods : Fire(m)
    \/ \E t \in Callers, m \in Mods : CallBusy(t, m)
    \/ \E t \in Callers, m \in Mods, n \in 1..MaxRef : CallIdle(t, m, n)

NextU ==
    \/ Next
    \/ \E t \in Callers, n \in 0..MaxRef : CallIdleUncovered(t, "child", n)

\* ---------------------------------------------------- client rate registry
\* Clock indices of the module (num_clks = 2) and the client tokens.
Clocks == {0, 1}
Privs == {"A", "B"}
\* Rates clients ask for.
Requests == {60, 260}
\* desc->clocks[i].default_rate
default_rate(i) == IF i = 0 THEN 110 ELSE 200

\* clk_round_rate: the achievable rates are the multiples of RateStep; a
\* request is rounded down to one, and up to the lowest when below it.
RateStep == 50
clk_round_rate(r) == IF r < RateStep THEN RateStep ELSE (r \div RateStep) * RateStep

Max(a, b) == IF a >= b THEN a ELSE b

\* list_for_each_entry(m, ...) rate = max(m->rate[index], rate), from 0
RECURSIVE max_vote(_, _)
max_vote(list, index) ==
    IF list = <<>> THEN 0
    ELSE Max(list[Len(list)].rate[index],
             max_vote(SubSeq(list, 1, Len(list) - 1), index))

\* nvhost_module_update_rate: the rate handed to clk_set_rate
nvhost_module_update_rate(list, index) ==
    IF max_vote(list, index) = 0
    THEN clk_round_rate(default_rate(index))
    ELSE max_vote(list, index)

\* Position of the first record whose priv matches, 0 when there is none.
FindClient(list, priv) ==
    IF \E k \in 1..Len(list) : list[k].priv = priv
    THEN CHOOSE k \in 1..Len(list) :
            /\ list[k].priv = priv
            /\ \A j \in 1..(k - 1) : list[j].priv # priv
    ELSE 0

\* Most client records on the list.
MaxClients == 2

\* nvhost_module_add_client: a record voting the rounded default on every
\* clock is appended; no rate is recomputed.  kzalloc may fail.
nvhost_module_add_client(priv) ==
    /\ ~fatal
    /\ lastop' = [op |-> "add_client", priv |-> priv, index |-> 0, rate |-> 0]
    /\ \/ /\ Len(client_list) < MaxClients
          /\ client_list' = Append(client_list,
                [priv |-> priv,
                 rate |-> [i \in Clocks |-> clk_round_rate(default_rate(i))]])
          /\ ret' = "OK"
       \/ /\ client_list' = client_list
          /\ ret' = "ENOMEM"
    /\ UNCHANGED <<clk_rate, pvars, dvars, gvars>>

\* Mutant of SetVote: the loop does not compare the token and stores the
\* vote in every record.
SetVoteAll(list, priv, rate, index) ==
    [k \in 1..Len(list) |->
        [list[k] EXCEPT !.rate[index] = clk_round_rate(rate)]]

\* The client list after set_rate's loop (lines 233-239).
SetVote(list, priv, rate, index) ==
    IF FindClient(list, priv) = 0 THEN list
    ELSE [list EXCEPT ![FindClient(list, priv)].rate[index] = clk_round_rate(rate)]

\* nvhost_module_set_rate, under client_list_lock
nvhost_module_set_rate(priv, rate, index) ==
    /\ ~fatal
    /\ lastop' = [op |-> "set_rate", priv |-> priv, index |-> index, rate |-> rate]
    /\ client_list' = SetVote(client_list, priv, rate, index)
    /\ clk_rate' = [clk_rate EXCEPT
                      ![index] = nvhost_module_update_rate(client_list', index)]
    /\ ret' = "OK"
    /\ UNCHANGED <<pvars, dvars, gvars>>

\* The list without its k-th record (list_del).
ListDel(list, k) == SubSeq(list, 1, k - 1) \o SubSeq(list, k + 1, Len(list))

\* nvhost_module_remove_client, under client_list_lock.  When no record
\* matches, the loop leaves m pointing at the list head's container, which
\* is not NULL: kfree(m) frees memory that was never allocated, and the
\* build either stops there or goes on to recompute the rates.
nvhost_module_remove_client(priv) ==
    /\ ~fatal
    /\ lastop' = [op |-> "remove_client", priv |-> priv, index |-> 0, rate |-> 0]
    /\ ret' = "OK"
    /\ IF FindClient(client_list, priv) # 0
       THEN /\ client_list' = ListDel(client_list, FindClient(client_list, priv))
            /\ clk_rate' = [i \in Clocks |->
                              nvhost_module_update_rate(client_list', i)]
            /\ UNCHANGED <<pvars, dvars, gvars>>
       ELSE /\ client_list' = client_list
            /\ \/ /\ fatal' = TRUE
                  /\ clk_rate' = clk_rate
               \/ /\ fatal' = fatal
                  /\ clk_rate' = [i \in Clocks |->
                                    nvhost_module_update_rate(client_list, i)]
            /\ UNCHANGED <<stack, lock, refcount, powered, pending, gated,
                           clkon, fin, pref, ext, everbusy, refused, rearmed,
                           clean, dvars, gvars>>

NextRate ==
    \/ \E priv \in Privs : nvhost_module_add_client(priv)
    \/ \E priv \in Privs, rate \in Requests, index \in Clocks :
            nvhost_module_set_rate(priv, rate, index)
    \/ \E priv \in Privs : nvhost_module_remove_client(priv)

\* nvhost_module_init: every clock is set to its rounded default rate and
\* the client list is empty.
InitRate ==
    /\ client_list = <<>>
    /\ clk_rate = [i \in Clocks |-> clk_round_rate(default_rate(i))]
    /\ ret = "OK"
    /\ lastop = [op |-> "init", priv |-> "A", index |-> 0, rate |-> 0]

\* ------------------------------------------------------- GART (iovmm-gart.c)
GART_PAGE_SHIFT == 12
\* gart_probe refuses to run unless PAGE_SHIFT == GART_PAGE_SHIFT
PAGE_SHIFT == GART_PAGE_SHIFT
GartPageSize == 2 ^ GART_PAGE_SHIFT
\* gart->page_count
MaxGartPages == 3
\* The addresses of the GART entries.
GartAddrs == {k * GartPageSize : k \in 0..(MaxGartPages - 1)}

\* No gart_map call is in progress and the GART is empty.
NoGartCall ==
    /\ iovma = [iovm_start |-> 0, iovm_length |-> 0, bad |-> 0, pfn0 |-> 0]
    /\ gart_pc = "idle"
    /\ gart_i = 0
    /\ gart_page = 0
    /\ gart_pfn = 0
    /\ pte = [a \in GartAddrs |-> [valid |-> FALSE, addr |-> 0]]
    /\ pte0 = pte
    /\ resident = [k \in 0..(MaxGartPages - 1) |-> 0]
    /\ released = [k \in 0..(MaxGartPages - 1) |-> 0]
    /\ gart_ret = "none"

Init == InitPower /\ InitRate /\ NoGartCall

\* Callers that keep to the busy/idle protocol.
Spec == Init /\ [][Next]_vars
\* Callers that may also idle references they do not hold.
SpecU == Init /\ [][NextU]_vars
\* The client rate registry alone.
SpecRate == Init /\ [][NextRate]_vars

\* ================================================================ claims
\* Frames of busy(m) that are inside the power-up sequence (lines 112-118).
PowerUpPcs == {"parent", "ungate", "clken", "finalize", "setpow"}
InPowerUp(p, m) ==
    \E k \in 1..Depth(p) :
        /\ stack[p][k].fn = "busy"
        /\ stack[p][k].m = m
        /\ stack[p][k].pc \in PowerUpPcs
WorkerAt(m, pcs) ==
    /\ Depth(Worker(m)) > 0
    /\ stack[Worker(m)][1].pc \in pcs

\* C1: with every idle covered by earlier busy calls, refcount stays >= 0;
\* whenever the module's lock is free, refcount > 0 implies powered; powered
\* is false while refcount has never been nonzero; and powered becomes true
\* only when a power-up started by a 0->1 transition completes, and false
\* only when the handler completes a power-down with refcount 0.
C1_State ==
    \A m \in Mods :
        /\ refcount[m] >= 0
        /\ (lock[m] = Free /\ refcount[m] > 0) => powered[m]
        /\ ~everbusy[m] => ~powered[m]
C1_Step ==
    \A m \in Mods :
        /\ (~powered[m] /\ powered'[m]) =>
              /\ refcount[m] = 1 /\ clkon[m] = 1 /\ fin[m] = 1
              /\ \E p \in Procs : lock[m] = p /\ InPowerUp(p, m)
        /\ (powered[m] /\ ~powered'[m]) =>
              /\ refcount[m] = 0 /\ clkon[m] = 0
              /\ lock[m] = Worker(m) /\ WorkerAt(m, {"clrpow"})
C1_PoweredSpan == [](C1_State) /\ [][C1_Step]_vars
C1_Witness ==
    /\ lock["child"] = Free /\ refcount["child"] = 2 /\ powered["child"]
    /\ lock["parent"] = Free /\ refcount["parent"] = 1 /\ powered["parent"]

\* C2: refcount >= 0 in every reachable state, also when idle(n) subtracts
\* more than the refcount; and an idle that reaches zero goes on only when
\* the module is powered.
C2_RefcountNeverNegative ==
    /\ \A m \in Mods : refcount[m] >= 0
    /\ \A p \in Procs : At(p, "idle", "sched") => powered[Top(p).m]

\* C3: the power-up sequence runs at most once per Off->Active transition:
\* a thread is inside it only while powered is false and refcount is 1, one
\* thread at a time, and between two power-offs the clocks are enabled, the
\* finalize hook is called and the parent is marked busy at most once.
C3_PowerUpOnce ==
    \A m \in Mods :
        /\ clkon[m] <= 1 /\ fin[m] <= 1 /\ pref[m] <= 1
        /\ Cardinality({p \in Procs : InPowerUp(p, m)}) <= 1
        /\ \A p \in Procs : InPowerUp(p, m) =>
              /\ ~powered[m] /\ refcount[m] = 1 /\ lock[m] = p
        /\ \A p \in Procs :
              (At(p, "busy", "unlock") /\ Top(p).m = m) =>
                  (powered[m] /\ clkon[m] = 1 /\ fin[m] = 1)
C3_Witness ==
    \E p \in Callers :
        /\ At(p, "busy", "unlock") /\ Top(p).m = "child"
        /\ refcount["child"] = 2 /\ fin["child"] = 1 /\ clkon["child"] = 1

\* C4: the handler disables clocks, gates the domain, clears powered or
\* idles the parent only with refcount 0 under the module's lock, so a
\* handler that finds refcount # 0 changes nothing; and nothing of the
\* power-up sequence runs while powered is true.
PowerOffEffect(m) ==
    \/ clkon'[m] < clkon[m]
    \/ gated'[m] /\ ~gated[m]
    \/ powered[m] /\ ~powered'[m]
    \/ pref'[m] < pref[m]
PowerUpEffect(m) ==
    \/ clkon'[m] > clkon[m]
    \/ gated[m] /\ ~gated'[m]
    \/ fin'[m] > fin[m]
    \/ pref'[m] > pref[m]
C4_Step ==
    \A m \in Mods :
        /\ PowerOffEffect(m) =>
              (refcount[m] = 0 /\ refcount'[m] = 0 /\ lock[m] = Worker(m))
        /\ PowerUpEffect(m) => ~powered[m]
        /\ (WorkerAt(m, {"check"}) /\ refcount[m] # 0
                /\ stack'[Worker(m)] # stack[Worker(m)]) =>
              stack'[Worker(m)] = <<Frame("powerdown", m, "unlock", 0)>>
C4_BusyBeatsPowerdown == [][C4_Step]_vars
C4_Witness ==
    /\ At(Worker("child"), "powerdown", "unlock")
    /\ refcount["child"] > 0 /\ powered["child"] /\ clkon["child"] = 1

\* C5: in an idle episode without an intervening busy(), every refusal of
\* the prepare_poweroff hook is followed by exactly one re-arm of the work,
\* the module stays powered with clocks on, domain un-gated and the parent
\* reference kept through the refusals, and the accepting run performs
\* exactly one power-off.
InRetry(m) == WorkerAt(m, {"retry_unlock", "resched"})
C5_RetryThenPowerOff ==
    \A m \in Mods : clean[m] =>
        /\ refcount[m] = 0
        /\ rearmed[m] + (IF InRetry(m) THEN 1 ELSE 0) = refused[m]
        /\ pending[m] <= 1
        /\ (powered[m] /\ ~WorkerAt(m, {"gate", "clrpow"})) =>
              /\ clkon[m] = 1
              /\ can_powergate(m) => ~gated[m]
              /\ Parent(m) # NoMod => pref[m] = 1
        /\ InRetry(m) => powered[m]
        /\ WorkerAt(m, {"resched"}) => lock[m] # Worker(m)
        /\ ~powered[m] =>
              /\ clkon[m] = 0
              /\ can_powergate(m) => gated[m]
              /\ stack[Worker(m)] = <<>> => pref[m] = 0
C5_Witness ==
    /\ clean["child"] /\ ~powered["child"] /\ stack[Worker("child")] = <<>>
    /\ refused["child"] = 2 /\ rearmed["child"] = 2

C7_ParentPropagation ==
    \A m \in Mods : Parent(m) # NoMod =>
        /\ pref[m] \in {0, 1}
        /\ powered[m] => (pref[m] = 1 /\ refcount[Parent(m)] >= 1
                            /\ powered[Parent(m)])
        /\ (lock[m] = Free /\ ~powered[m]) => pref[m] = 0
C7_Witness ==
    /\ refcount["child"] = 0 /\ powered["child"] /\ lock["child"] = Free
    /\ pending["child"] = 1 /\ stack[Worker("child")] = <<>>
    /\ refcount["parent"] = 1 /\ ext["parent"] = 0

Votes(list, index) == {list[k].rate[index] : k \in 1..Len(list)}
Effective(list, index) ==
    IF Votes(list, index) = {} THEN clk_round_rate(default_rate(index))
    ELSE CHOOSE v \in Votes(list, index) : \A w \in Votes(list, index) : w <= v

\* C9: after any sequence of add_client, set_rate and remove_client the
\* rate applied to each clock is the maximum of the current votes, or the
\* rounded default when there are none.
C9_AppliedIsMaxVote ==
    ~fatal => \A i \in Clocks : clk_rate[i] = Effective(client_list, i)

\* C10: set_rate with an unknown token succeeds, changes no vote and applies
\* the rate recomputed from the existing votes; with a known token exactly
\* the first matching record's vote for that index becomes the rounded
\* request; the applied rates of the other clocks are untouched.
C10_Step ==
    lastop'.op = "set_rate" =>
        LET k == FindClient(client_list, lastop'.priv)
            i == lastop'.index IN
        /\ ret' = "OK"
        /\ Len(client_list') = Len(client_list)
        /\ \A j \in 1..Len(client_list) :
              /\ client_list'[j].priv = client_list[j].priv
              /\ \A c \in Clocks :
                    client_list'[j].rate[c] =
                        IF j = k /\ c = i THEN clk_round_rate(lastop'.rate)
                        ELSE client_list[j].rate[c]
        /\ clk_rate'[i] = Effective(client_list', i)
        /\ \A c \in Clocks \ {i} : clk_rate'[c] = clk_rate[c]
C11_Step ==
    lastop'.op = "remove_client" =>
        LET k == FindClient(client_list, lastop'.priv) IN
        IF k # 0
        THEN /\ client_list' = ListDel(client_list, k)
             /\ \A i \in Clocks : clk_rate'[i] = Effective(client_list', i)
             /\ fatal' = fatal
        ELSE /\ client_list' = client_list
             /\ clk_rate' = clk_rate
             /\ fatal' = fatal
C11_RemoveClientFrame == [][C11_Step]_vars


\* ------------------------------------------------- nvhost_module_get_rate
\* Clock indexes a caller passes: the module's first clock and the first
\* slot of mod->clk[] that nvhost_module_init left without a clock.
Indexes == {0, Cardinality(Clocks)}

\* Mutant of HasClock: every slot is taken to hold a clock.
HasClockAny(index) == TRUE

\* !IS_ERR_OR_NULL(mod->clk[index])
HasClock(index) == index \in Clocks

\* c = mod->clk[index]; if (IS_ERR_OR_NULL(c)) return -EINVAL;
\* otherwise nvhost_module_busy(mod)
GetRateCheck(p) ==
    /\ ~fatal
    /\ At(p, "get_rate", "check")
    /\ stack' = IF HasClock(Top(p).n)
                THEN Call(p, "read", "busy", Top(p).m, 0)
                ELSE Goto(p, "einval")
    /\ UNCHANGED <<lock, refcount, powered, pending, gated, clkon, fin, pref,
                   ext, everbusy, refused, rearmed, clean, fatal, rvars, dvars, gvars>>

\* *rate = clk_get_rate(c): the frame's n now holds the rate read
GetRateRead(p) ==
    /\ ~fatal
    /\ At(p, "get_rate", "read")
    /\ stack' = [Goto(p, "idle") EXCEPT
                    ![p][Len(stack[p])].n = clk_rate[Top(p).n]]
    /\ UNCHANGED <<lock, refcount, powered, pending, gated, clkon, fin, pref,
                   ext, everbusy, refused, rearmed, clean, fatal, rvars, dvars, gvars>>

\* nvhost_module_idle(mod)
GetRateIdle(p) ==
    /\ ~fatal
    /\ At(p, "get_rate", "idle")
    /\ stack' = Call(p, "ret0", "idle", Top(p).m, 1)
    /\ UNCHANGED <<lock, refcount, powered, pending, gated, clkon, fin, pref,
                   ext, everbusy, refused, rearmed, clean, fatal, rvars, dvars, gvars>>

\* return -EINVAL; / return 0;
GetRateReturn(p) ==
    /\ ~fatal
    /\ At(p, "get_rate", "einval") \/ At(p, "get_rate", "ret0")
    /\ stack' = Return(p)
    /\ UNCHANGED <<lock, refcount, powered, pending, gated, clkon, fin, pref,
                   ext, everbusy, refused, rearmed, clean, fatal, rvars, dvars, gvars>>

\* References the callers take at a time when get_rate or suspend runs
\* beside them.
MaxRefG == 1

\* Callers inside nvhost_module_get_rate(m).
InGetRate(m) ==
    Cardinality({t \in Callers :
        Depth(t) > 0 /\ stack[t][1].fn = "get_rate" /\ stack[t][1].m = m})

\* A caller enters nvhost_module_get_rate(host, m, &rate, index).
CallGetRate(t, m, index) ==
    /\ ~fatal
    /\ stack[t] = <<>>
    /\ Outstanding(m) + InGetRate(m) < MaxRefG
    /\ stack' = [stack EXCEPT ![t] = <<Frame("get_rate", m, "check", index)>>]
    /\ UNCHANGED <<lock, refcount, powered, pending, gated, clkon, fin, pref,
                   ext, everbusy, refused, rearmed, clean, fatal, rvars, dvars, gvars>>

StepG(p) ==
    \/ Step(p)
    \/ GetRateCheck(p) \/ GetRateRead(p) \/ GetRateIdle(p) \/ GetRateReturn(p)

NextG ==
    \/ \E p \in Procs : StepG(p)
    \/ \E m \in Mods : Fire(m)
    \/ \E t \in Callers, m \in Mods :
          Outstanding(m) < MaxRefG /\ CallBusy(t, m)
    \/ \E t \in Callers, m \in Mods, n \in 1..MaxRefG : CallIdle(t, m, n)
    \/ \E t \in Callers, i \in Indexes : CallGetRate(t, "child", i)

SpecG == Init /\ [][NextG]_vars


\* C12: get_rate on an index without a clock returns -EINVAL and leaves
\* refcount, powered and the pending work alone; on a valid index the rate
\* is read while the module is powered and referenced, and once the call is
\* about to return with no other caller inside an operation the refcount is
\* back to the references the callers hold (the module may stay powered with
\* the power-down armed).
C12_State ==
    \A t \in Callers :
        /\ At(t, "get_rate", "read") =>
              powered[Top(t).m] /\ refcount[Top(t).m] >= 1
        /\ At(t, "get_rate", "einval") => Top(t).n \notin Clocks
        /\ At(t, "get_rate", "ret0") =>
              /\ Top(t).n = clk_rate[0]
              /\ (\A u \in Callers \ {t} : stack[u] = <<>>) =>
                    refcount[Top(t).m] = ext[Top(t).m]

C12_Step ==
    \A t \in Callers :
        (At(t, "get_rate", "check") /\ Top(t).n \notin Clocks
            /\ stack'[t] # stack[t]) =>
              /\ stack'[t] = <<Frame("get_rate", Top(t).m, "einval", Top(t).n)>>
              /\ UNCHANGED <<refcount, powered, pending, lock, gated, clkon>>

C12_GetRate == []C12_State /\ [][C12_Step]_vars

C12_Witness ==
    \E t \in Callers :
        /\ At(t, "get_rate", "ret0")
        /\ \A u \in Callers \ {t} : stack[u] = <<>>
        /\ refcount["child"] = 0 /\ powered["child"] /\ pending["child"] >= 1


\* --------------------------------------------------- nvhost_module_suspend
\* system_suspend is passed for the host module, the one without a parent.
system_suspend(m) == Parent(m) = NoMod

\* Mutant of is_module_idle: the test of the count is inverted.
is_module_idle_inverted(m) == refcount[m] # 0

\* is_module_idle: the count read under mod->lock is 0
is_module_idle(m) == refcount[m] = 0

\* if (system_suspend) { if (!is_module_idle(mod)) debug_not_idle(dev); }
\* debug_not_idle only prints the counts.
SuspendEntry(p) ==
    /\ ~fatal
    /\ At(p, "suspend", "entry")
    /\ system_suspend(Top(p).m) => lock[Top(p).m] = Free
    /\ stack' = Goto(p, "wait")
    /\ UNCHANGED <<lock, refcount, powered, pending, gated, clkon, fin, pref,
                   ext, everbusy, refused, rearmed, clean, fatal, rvars, dvars, gvars>>

\* ret = wait_event_timeout(mod->idle, is_module_idle(mod), TIMEOUT):
\* returns at once when the module is idle, and with ret == 0 when the
\* timeout ends with the module still not idle.  The frame's n is ret.
SuspendWait(p) ==
    /\ ~fatal
    /\ At(p, "suspend", "wait")
    /\ lock[Top(p).m] = Free
    /\ stack' = IF is_module_idle(Top(p).m)
                THEN [Goto(p, "flush") EXCEPT ![p][Len(stack[p])].n = 1]
                ELSE [Goto(p, "dump") EXCEPT ![p][Len(stack[p])].n = 0]
    /\ UNCHANGED <<lock, refcount, powered, pending, gated, clkon, fin, pref,
                   ext, everbusy, refused, rearmed, clean, fatal, rvars, dvars, gvars>>

\* Mutant of AfterDump: a timed-out wait ends the suspend.
AfterDumpAbort == "abort"

\* Where suspend continues after nvhost_debug_dump.
AfterDump == "flush"

\* if (ret == 0) nvhost_debug_dump(dev);
SuspendDump(p) ==
    /\ ~fatal
    /\ At(p, "suspend", "dump")
    /\ stack' = Goto(p, AfterDump)
    /\ UNCHANGED <<lock, refcount, powered, pending, gated, clkon, fin, pref,
                   ext, everbusy, refused, rearmed, clean, fatal, rvars, dvars, gvars>>

\* flush_delayed_work(&mod->powerdown): a pending work is taken off its
\* timer and run now, behind a handler that is still running
SuspendFlush(p) ==
    /\ ~fatal
    /\ At(p, "suspend", "flush")
    /\ LET m == Top(p).m IN
        IF pending[m] > 0
        THEN /\ stack[Worker(m)] = <<>>
             /\ pending' = [pending EXCEPT ![m] = @ - 1]
             /\ stack' = [Goto(p, "flush_wait") EXCEPT
                            ![Worker(m)] = <<Frame("powerdown", m, "lock", 0)>>]
        ELSE /\ pending' = pending
             /\ stack' = Goto(p, "flush_wait")
    /\ UNCHANGED <<lock, refcount, powered, gated, clkon, fin, pref, ext,
                   everbusy, refused, rearmed, clean, fatal, rvars, dvars, gvars>>

\* flush_delayed_work returns when the handler has finished
SuspendFlushWait(p) ==
    /\ ~fatal
    /\ At(p, "suspend", "flush_wait")
    /\ stack[Worker(Top(p).m)] = <<>>
    /\ stack' = Goto(p, "hook")
    /\ UNCHANGED <<lock, refcount, powered, pending, gated, clkon, fin, pref,
                   ext, everbusy, refused, rearmed, clean, fatal, rvars, dvars, gvars>>

\* if (mod->desc->suspend) mod->desc->suspend(mod);
SuspendHook(p) ==
    /\ ~fatal
    /\ At(p, "suspend", "hook")
    /\ stack' = Goto(p, "assert")
    /\ UNCHANGED <<lock, refcount, powered, pending, gated, clkon, fin, pref,
                   ext, everbusy, refused, rearmed, clean, fatal, rvars, dvars, gvars>>

\* BUG_ON(mod->powered); return
SuspendAssert(p) ==
    /\ ~fatal
    /\ At(p, "suspend", "assert")
    /\ IF powered[Top(p).m]
       THEN fatal' = TRUE /\ stack' = stack
       ELSE fatal' = fatal /\ stack' = Return(p)
    /\ UNCHANGED <<lock, refcount, powered, pending, gated, clkon, fin, pref,
                   ext, everbusy, refused, rearmed, clean, rvars, dvars, gvars>>

\* Some caller is inside f.
Inside(f) == \E t \in Callers : Depth(t) > 0 /\ stack[t][1].fn = f

\* A caller enters nvhost_module_suspend(m, system_suspend(m)); the system
\* suspends one module at a time, when the callers have stopped taking
\* references.
CallSuspend(t, m) ==
    /\ ~fatal
    /\ stack[t] = <<>>
    /\ ~Inside("busy") /\ ~Inside("suspend")
    /\ stack' = [stack EXCEPT ![t] = <<Frame("suspend", m, "entry", 0)>>]
    /\ UNCHANGED <<lock, refcount, powered, pending, gated, clkon, fin, pref,
                   ext, everbusy, refused, rearmed, clean, fatal, rvars, dvars, gvars>>

StepS(p) ==
    \/ Step(p)
    \/ SuspendEntry(p) \/ SuspendWait(p) \/ SuspendDump(p) \/ SuspendFlush(p)
    \/ SuspendFlushWait(p) \/ SuspendHook(p) \/ SuspendAssert(p)

NextS ==
    \/ \E p \in Procs : StepS(p)
    \/ \E m \in Mods : Fire(m)
    \/ \E t \in Callers, m \in Mods :
          ~Inside("suspend") /\ Outstanding(m) < MaxRefG /\ CallBusy(t, m)
    \/ \E t \in Callers, m \in Mods, n \in 1..MaxRefG : CallIdle(t, m, n)
    \/ \E t \in Callers, m \in Mods : CallSuspend(t, m)

SpecS == Init /\ [][NextS]_vars


\* C13: when suspend found a module that has been in use idle (refcount 0)
\* and has flushed the delayed work, the module is powered off before the
\* suspend hook runs:
\* powered false, clocks disabled, partition gated, and no power-down is
\* left pending to fire after the hook.
C13_FlushPowersOff ==
    \A t \in Callers :
        (At(t, "suspend", "hook") /\ Top(t).n = 1 /\ everbusy[Top(t).m]) =>
            LET m == Top(t).m IN
            /\ ~powered[m]
            /\ clkon[m] = 0
            /\ can_powergate(m) => gated[m]
            /\ pending[m] = 0


\* C14: while a module is Off (refcount 0, powered false) a suspend of it
\* does not wait and never dumps, no prepare hook, clock disable or
\* partition gate happens, refcount and powered stay as they are, and the
\* final assertion passes: suspend returns.
C14_Off(m) == refcount[m] = 0 /\ ~powered[m]

\* p is at pc of f after the step
AtNext(p, f, pc) ==
    /\ Len(stack'[p]) > 0
    /\ stack'[p][Len(stack'[p])].fn = f
    /\ stack'[p][Len(stack'[p])].pc = pc

C14_Step ==
    \A t \in Callers :
        (Depth(t) > 0 /\ stack[t][1].fn = "suspend" /\ C14_Off(stack[t][1].m)) =>
            LET m == stack[t][1].m IN
            /\ refcount'[m] = 0 /\ ~powered'[m]
            /\ clkon'[m] = clkon[m] /\ gated'[m] = gated[m]
            /\ pg_touched'[m] = pg_touched[m]
            /\ ~AtNext(Worker(m), "powerdown", "prepare")
            /\ stack'[t] # stack[t] => ~AtNext(t, "suspend", "dump")
            /\ At(t, "suspend", "wait") /\ stack'[t] # stack[t] =>
                  AtNext(t, "suspend", "flush")
            /\ At(t, "suspend", "assert") /\ stack'[t] # stack[t] =>
                  stack'[t] = <<>>
            /\ fatal' = fatal

C14_SuspendOffModule == [][C14_Step]_vars

C14_Witness ==
    \E t \in Callers :
        /\ At(t, "suspend", "assert")
        /\ C14_Off(Top(t).m) /\ ~everbusy[Top(t).m]


\* C15: a suspend whose wait times out with refcount still above 0 only
\* dumps diagnostics: the timed-out step changes nothing, the suspend goes
\* on to the flush, the suspend hook and the final assertion, it never
\* returns before the assertion, and the system stops only at that
\* assertion, with the module still powered.
C15_Succ(pc) ==
    CASE pc = "entry" -> {"wait"}
      [] pc = "wait" -> {"flush", "dump"}
      [] pc = "dump" -> {"flush"}
      [] pc = "flush" -> {"flush_wait"}
      [] pc = "flush_wait" -> {"hook"}
      [] pc = "hook" -> {"assert"}
      [] OTHER -> {}

C15_Step ==
    /\ \A t \in Callers :
        (Depth(t) = 1 /\ Top(t).fn = "suspend" /\ stack'[t] # stack[t]) =>
            /\ stack'[t] # <<>> => stack'[t][1].pc \in C15_Succ(Top(t).pc)
            /\ stack'[t] = <<>> =>
                  At(t, "suspend", "assert") /\ ~powered[Top(t).m]
            /\ (At(t, "suspend", "wait") /\ refcount[Top(t).m] > 0) =>
                  /\ AtNext(t, "suspend", "dump")
                  /\ UNCHANGED <<refcount, powered, pending, lock, fatal>>
    /\ (~fatal /\ fatal') =>
          \E t \in Callers : At(t, "suspend", "assert") /\ powered[Top(t).m]

C15_TimeoutDiagnosticOnly == [][C15_Step]_vars

C15_Witness ==
    \E t \in Callers :
        /\ At(t, "suspend", "assert") /\ Top(t).n = 0
        /\ fatal


\* ---------------------------------------------- descriptors without gating
\* The same two modules under descriptors of which none can powergate.
NoGateDesc == [m \in Mods |-> FALSE]
Descs == {HostDesc, NoGateDesc}

InitDesc ==
    /\ desc_gate \in Descs
    /\ InitModules
    /\ InitRate
    /\ NoGartCall

\* One thread takes and drops references, the other suspends.
NextD ==
    \/ \E p \in Procs : StepS(p)
    \/ \E m \in Mods : Fire(m)
    \/ \E m \in Mods :
          ~Inside("suspend") /\ Outstanding(m) < MaxRefG /\ CallBusy("t1", m)
    \/ \E m \in Mods, n \in 1..MaxRefG : CallIdle("t1", m, n)
    \/ \E m \in Mods : CallSuspend("t2", m)

SpecDesc == InitDesc /\ [][NextD]_vars

\* C16: a module whose descriptor cannot powergate has its partition
\* un-gated from init on, and no busy, power-down or suspend ever issues a
\* gate or un-gate call for it; for a module that can powergate only the
\* slots of powergate_ids that name a partition are gated or un-gated.
C16_GateOnlyIfCan ==
    \A m \in Mods :
        /\ ~can_powergate(m) => ~gated[m] /\ pg_touched[m] = {}
        /\ \A s \in pg_touched[m] : powergate_ids(m)[s] # NoPartition

\* A module that cannot powergate has gone through power-up and power-down,
\* parent reference included, without a gate call.
C16_Witness ==
    /\ ~can_powergate("child")
    /\ everbusy["child"] /\ ~powered["child"] /\ clkon["child"] = 0
    /\ \A p \in Procs : stack[p] = <<>>
    /\ refcount["child"] = 0 /\ pref["child"] = 0
    /\ pg_touched["child"] = {}


\* ------------------------------------------------------- fair scheduling
\* Every thread that can take its next statement eventually takes it, and
\* the delay of a pending work eventually expires; one thread takes
\* references and another drops them, and both are free never to call again.
NextL ==
    \/ \E p \in Procs : Step(p)
    \/ \E m \in Mods : Fire(m)
    \/ \E m \in Mods : Outstanding(m) < MaxRefG /\ CallBusy("t1", m)
    \/ \E m \in Mods, n \in 1..MaxRefG : CallIdle("t2", m, n)

Fairness ==
    /\ \A p \in Procs : WF_vars(Step(p))
    /\ \A m \in Mods : WF_vars(Fire(m))

SpecLive == Init /\ [][NextL]_vars /\ Fairness

\* C17: a module left with refcount 0 and powered true is eventually
\* powered off (powered false, clocks disabled, partition gated) unless a
\* busy() takes a reference first; and a module with refcount 0 and powered
\* true always has a thread inside an operation or a power-down pending.
PoweredOff(m) ==
    ~powered[m] /\ clkon[m] = 0 /\ (can_powergate(m) => gated[m])

C17_NoStuckIdle ==
    \A m \in Mods :
        (refcount[m] = 0 /\ powered[m] /\ \A p \in Procs : stack[p] = <<>>)
            => pending[m] >= 1

C17_EventualPowerDown ==
    /\ []C17_NoStuckIdle
    /\ \A m \in Mods :
          (refcount[m] = 0 /\ powered[m]) ~> (PoweredOff(m) \/ refcount[m] > 0)

\* The power-down has been refused and re-armed and then completed.
C17_Witness ==
    /\ PoweredOff("child") /\ refcount["child"] = 0
    /\ refused["child"] >= 1 /\ rearmed["child"] >= 1
    /\ \A p \in Procs : stack[p] = <<>>


\* C18: power-up runs parent busy, un-gate, clock enable, finalize hook,
\* powered true, in that order; power-down runs prepare hook, clock disable,
\* gate, powered false, parent idle, in that order.
C18_Step ==
    \A m \in Mods :
        \* the partition is un-gated only once the parent's busy has returned
        /\ \A p \in Procs :
              (At(p, "busy", "ungate") /\ Top(p).m = m /\ Parent(m) # NoMod)
                  => powered[Parent(m)] /\ pref[m] = 1
        /\ (gated[m] /\ ~gated'[m] /\ Parent(m) # NoMod) =>
              powered[Parent(m)] /\ pref[m] = 1
        \* un-gate precedes clock enable
        /\ clkon'[m] > clkon[m] =>
              /\ can_powergate(m) => ~gated[m]
              /\ \E p \in Procs : At(p, "busy", "clken") /\ Top(p).m = m
              /\ ~powered[m] /\ fin[m] = 0
        \* clock enable precedes the finalize hook
        /\ fin'[m] > fin[m] => clkon[m] = 1 /\ ~powered[m]
        \* powered is set last
        /\ (~powered[m] /\ powered'[m]) =>
              /\ clkon[m] = 1 /\ fin[m] = 1
              /\ can_powergate(m) => ~gated[m]
        \* the prepare hook precedes clock disable
        /\ (~At(Worker(m), "powerdown", "clkdis")
              /\ AtNext(Worker(m), "powerdown", "clkdis")) =>
              At(Worker(m), "powerdown", "prepare")
        /\ clkon'[m] < clkon[m] => At(Worker(m), "powerdown", "clkdis")
        \* clock disable precedes gating
        /\ (~gated[m] /\ gated'[m]) => clkon[m] = 0 /\ powered[m]
        \* powered is cleared after gating
        /\ (powered[m] /\ ~powered'[m]) =>
              /\ clkon[m] = 0
              /\ can_powergate(m) => gated[m]
        \* the parent is idled only after powered is false
        /\ pref'[m] < pref[m] => ~powered[m] /\ clkon[m] = 0

C18_PowerSequencing == [][C18_Step]_vars

\* The child is about to give up its parent reference at the end of a
\* power-down that followed a full power-up.
C18_Witness ==
    /\ At("wc", "powerdown", "pidle")
    /\ ~powered["child"] /\ gated["child"] /\ clkon["child"] = 0
    /\ powered["parent"] /\ pref["child"] = 1


\* C19: whenever no thread is inside an operation on a child, a powered
\* child has a powered parent, and a parent's refcount is at least the
\* number of its powered children; so a parent is never powered off while a
\* child is Active or IdlePending.
Children(m) == {c \in Mods : Parent(c) = m}
InsideOn(m) ==
    \E p \in Procs : \E i \in 1..Len(stack[p]) : stack[p][i].m = m

C19_Hierarchy ==
    /\ \A c \in Mods :
          (Parent(c) # NoMod /\ powered[c]) => powered[Parent(c)]
    /\ \A m \in Mods :
          (\A c \in Children(m) : ~InsideOn(c)) =>
              refcount[m] >= Cardinality({c \in Children(m) : powered[c]})

\* The child is IdlePending with nobody inside it while the callers hold no
\* reference on the parent: the parent stays powered for the child alone.
C19_Witness ==
    /\ powered["child"] /\ refcount["child"] = 0 /\ ~InsideOn("child")
    /\ powered["parent"] /\ refcount["parent"] = 1 /\ ext["parent"] = 0
    /\ everbusy["parent"] /\ stack["wp"] = <<>> /\ ~InsideOn("parent")


\* -------------------------------------- fair scheduling, get_rate included
\* One thread takes references on the child, the other drops them and reads
\* rates; the parent is referenced and powered down through the child.
NextLG ==
    \/ \E p \in Procs : StepG(p)
    \/ \E m \in Mods : Fire(m)
    \/ Outstanding("child") < MaxRefG /\ CallBusy("t1", "child")
    \/ \E n \in 1..MaxRefG : CallIdle("t2", "child", n)
    \/ \E i \in Indexes : CallGetRate("t2", "child", i)

\* mutex_lock by p
LockStep(p) == BusyLock(p) \/ IdleLock(p) \/ PdLock(p)

\* Runnable threads run, a pending work expires, and a thread waiting for a
\* mutex that is released again and again eventually gets it.
FairnessG ==
    /\ \A p \in Procs : WF_vars(StepG(p)) /\ SF_vars(LockStep(p))
    /\ \A m \in Mods : WF_vars(Fire(m))

SpecLiveG == Init /\ [][NextLG]_vars /\ FairnessG

\* C20: locks are taken child first, then parent, never the other way round;
\* so never is every thread inside an operation waiting for a lock, and
\* every call (busy, idle, get_rate, power-down handler) eventually returns.
Blocked(p) ==
    /\ Depth(p) > 0 /\ Top(p).pc = "lock"
    /\ lock[Top(p).m] # Free

C20_LockOrder ==
    \A p \in Procs :
        /\ (Depth(p) > 0 /\ Top(p).pc = "lock" /\ Top(p).m = "child") =>
              lock["parent"] # p
        /\ lock["parent"] = p => ~Blocked(p)
        /\ lock["child"] = p /\ Blocked(p) => Top(p).m = "parent"

C20_SomeoneRuns ==
    (\E p \in Procs : Depth(p) > 0) =>
        \E p \in Procs : Depth(p) > 0 /\ ~Blocked(p)

C20_DeadlockFree ==
    /\ [](C20_LockOrder /\ C20_SomeoneRuns)
    /\ \A p \in Procs : (Depth(p) > 0) ~> (Depth(p) = 0)

\* The handler holds the child's lock and waits for the parent's, which a
\* caller inside get_rate's nested calls holds, while a third thread waits.
C20_Witness ==
    \E p, q, r \in Procs :
        /\ p # q /\ q # r /\ p # r
        /\ lock["child"] = p /\ Blocked(p)
        /\ lock["parent"] = q
        /\ Blocked(r)


\* C21: the clocks of a module are enabled once more than disabled while it
\* is powered and equally often while it is not, in every state where the
\* module's lock is free; they are never disabled while disabled nor
\* enabled while enabled.
C21_State ==
    \A m \in Mods :
        /\ clkon[m] \in {0, 1}
        /\ lock[m] = Free => clkon[m] = (IF powered[m] THEN 1 ELSE 0)

C21_Step ==
    \A m \in Mods :
        /\ clkon'[m] > clkon[m] => clkon[m] = 0 /\ clkon'[m] = 1
        /\ clkon'[m] < clkon[m] => clkon[m] = 1 /\ clkon'[m] = 0

C21_ClockBalance == []C21_State /\ [][C21_Step]_vars

\* The child has been powered up and, after a refused attempt, powered
\* down: its clocks were enabled once and disabled once.
C21_Witness ==
    /\ ~powered["child"] /\ clkon["child"] = 0 /\ lock["child"] = Free
    /\ everbusy["child"] /\ refused["child"] >= 1
    /\ \A p \in Procs : stack[p] = <<>>


\* ------------------------------------------------------------- gart_map
\* A GART entry as its two bit fields: bit 31 (the entry is valid) and
\* bits 30..0 (the address of the frame); 0 is the entry with neither.
Entry(valid, addr) == [valid |-> valid, addr |-> addr]
ZeroEntry == Entry(FALSE, 0)

\* #define GART_PTE(_pfn) (0x80000000ul | ((_pfn) << PAGE_SHIFT))
GART_PTE(pfn) == Entry(TRUE, pfn * 2 ^ PAGE_SHIFT)

\* What lock_makeresident returns for a page it cannot make resident.
InvalidPfn == 0 - 1
pfn_valid(pfn) == pfn # InvalidPfn

\* iovma->ops->lock_makeresident(iovma, offset): pins the page at offset and
\* returns its frame number, or fails for the area's bad page.
lock_makeresident(a, offset) ==
    IF offset \div GartPageSize = a.bad
    THEN InvalidPfn
    ELSE a.pfn0 + offset \div GartPageSize

\* count = iovma->iovm_length >> GART_PAGE_SHIFT
GartCount(a) == a.iovm_length \div 2 ^ GART_PAGE_SHIFT

\* The areas a caller maps: inside the GART, backed by frames from pfn0 on,
\* of which page bad (if below the count) cannot be made resident.
Areas ==
    {[iovm_start |-> a, iovm_length |-> n * GartPageSize, bad |-> b,
      pfn0 |-> 1] :
        a \in GartAddrs, n \in 0..MaxGartPages, b \in 0..MaxGartPages}

\* gart_map is entered: gart_page = iovma->iovm_start, i = 0; the GART holds
\* entries of earlier mappings.
InitGart ==
    /\ InitPower /\ InitRate
    /\ iovma \in {a \in Areas :
                    /\ a.iovm_start + a.iovm_length <= MaxGartPages * GartPageSize
                    /\ a.bad <= GartCount(a)}
    /\ gart_pc = "loop"
    /\ gart_i = 0
    /\ gart_page = iovma.iovm_start
    /\ gart_pfn = 0
    /\ pte \in [GartAddrs -> {ZeroEntry, GART_PTE(0)}]
    /\ pte0 = pte
    /\ resident = [k \in 0..(MaxGartPages - 1) |-> 0]
    /\ released = [k \in 0..(MaxGartPages - 1) |-> 0]
    /\ gart_ret = "none"

\* for (i = 0; i < count; i++) { pfn = lock_makeresident(iovma, i<<PAGE_SHIFT);
\* if (!pfn_valid(pfn)) goto fail; ... } return 0;
GartMapLoop ==
    /\ gart_pc = "loop"
    /\ IF gart_i < GartCount(iovma)
       THEN LET pfn == lock_makeresident(iovma, gart_i * 2 ^ PAGE_SHIFT) IN
            /\ gart_pfn' = pfn
            /\ IF pfn_valid(pfn)
               THEN /\ resident' = [resident EXCEPT ![gart_i] = @ + 1]
                    /\ gart_pc' = "write"
               ELSE /\ resident' = resident
                    /\ gart_pc' = "fail"
            /\ gart_ret' = gart_ret
       ELSE /\ gart_ret' = "OK"
            /\ gart_pc' = "done"
            /\ UNCHANGED <<gart_pfn, resident>>
    /\ UNCHANGED <<iovma, gart_i, gart_page, pte, pte0, released,
                   pvars, rvars, dvars>>


\* spin_lock; the entry at gart_page is set to GART_PTE(pfn);
\* gart_page += 1 << GART_PAGE_SHIFT; spin_unlock; i++
GartMapWrite ==
    /\ gart_pc = "write"
    /\ pte' = [pte EXCEPT ![gart_page] = GART_PTE(gart_pfn)]
    /\ gart_page' = gart_page + 2 ^ GART_PAGE_SHIFT
    /\ gart_i' = gart_i + 1
    /\ gart_pc' = "loop"
    /\ UNCHANGED <<iovma, gart_pfn, pte0, resident, released, gart_ret,
                   pvars, rvars, dvars>>

\* Mutant of GartMapFail: the pages are released but their entries are left
\* in the GART.
GartMapFailKeepsEntries ==
    /\ gart_pc = "fail"
    /\ IF gart_i # 0
       THEN /\ gart_i' = gart_i - 1
            /\ released' = [released EXCEPT ![gart_i'] = @ + 1]
            /\ gart_page' = gart_page - 2 ^ GART_PAGE_SHIFT
            /\ UNCHANGED <<gart_pc, gart_ret>>
       ELSE /\ gart_i' = gart_i - 1
            /\ gart_ret' = "ENOMEM"
            /\ gart_pc' = "done"
            /\ UNCHANGED <<released, gart_page>>
    /\ UNCHANGED <<iovma, gart_pfn, pte, pte0, resident, pvars, rvars, dvars>>

\* fail: while (i--) { release(iovma, i<<PAGE_SHIFT);
\* gart_page -= 1 << GART_PAGE_SHIFT; the entry at gart_page is set to 0 }
\* return -ENOMEM;  (i is not read after its last decrement)
GartMapFail ==
    /\ gart_pc = "fail"
    /\ IF gart_i # 0
       THEN /\ gart_i' = gart_i - 1
            /\ released' = [released EXCEPT
                              ![(gart_i' * 2 ^ PAGE_SHIFT) \div GartPageSize]
                                  = @ + 1]
            /\ gart_page' = gart_page - 2 ^ GART_PAGE_SHIFT
            /\ pte' = [pte EXCEPT ![gart_page'] = ZeroEntry]
            /\ UNCHANGED <<gart_pc, gart_ret>>
       ELSE /\ gart_i' = gart_i - 1
            /\ gart_ret' = "ENOMEM"
            /\ gart_pc' = "done"
            /\ UNCHANGED <<released, gart_page, pte>>
    /\ UNCHANGED <<iovma, gart_pfn, pte0, resident, pvars, rvars, dvars>>

NextGart == GartMapLoop \/ GartMapWrite \/ GartMapFail

SpecGart == InitGart /\ [][NextGart]_vars

\* C22: when page i cannot be made resident, gart_map returns -ENOMEM with
\* each of the pages 0..i-1 pinned once and released once and its entry 0,
\* page i and the pages after it neither pinned, released nor written, and
\* every entry outside the area as it was; when every page is made resident
\* it returns 0 with each entry of the area valid and naming the page's
\* frame, nothing released, and every entry outside the area as it was.
GartPages == 0..(MaxGartPages - 1)
EntryOf(k) == iovma.iovm_start + k * GartPageSize
InArea(addr) ==
    addr >= iovma.iovm_start /\ addr < iovma.iovm_start + iovma.iovm_length
ValidFor(e, pfn) == e.valid /\ e.addr \div GartPageSize = pfn

C22_AllOrNothing ==
    gart_pc = "done" =>
        /\ \A a \in GartAddrs : ~InArea(a) => pte[a] = pte0[a]
        /\ gart_ret = (IF iovma.bad < GartCount(iovma) THEN "ENOMEM" ELSE "OK")
        /\ gart_ret = "ENOMEM" =>
              \A k \in GartPages :
                  /\ k < iovma.bad =>
                        /\ resident[k] = 1 /\ released[k] = 1
                        /\ ~pte[EntryOf(k)].valid /\ pte[EntryOf(k)].addr = 0
                  /\ k >= iovma.bad =>
                        /\ resident[k] = 0 /\ released[k] = 0
                        /\ k < GartCount(iovma) =>
                              pte[EntryOf(k)] = pte0[EntryOf(k)]
        /\ gart_ret = "OK" =>
              \A k \in GartPages :
                  /\ released[k] = 0
                  /\ resident[k] = (IF k < GartCount(iovma) THEN 1 ELSE 0)
                  /\ k < GartCount(iovma) =>
                        ValidFor(pte[EntryOf(k)], iovma.pfn0 + k)

\* gart_map has failed on the last page of an area after mapping the pages
\* before it over entries that were in use.
C22_Witness ==
    /\ gart_pc = "done" /\ gart_ret = "ENOMEM"
    /\ iovma.bad >= 1 /\ iovma.iovm_start > 0
    /\ \A a \in GartAddrs : pte0[a].valid

====
